---- MODULE Spec2Model ----
(***************************************************************************)
(* Pharmal-Net training / inference pipeline of portal/ml:                 *)
(*   dti_processor.protein_smiles_uploads  (clean, split, fit, evaluate,   *)
(*                                          save, package)                 *)
(*   dti_api.pharmalnet_train_api          (training endpoint)             *)
(*   dti_api.run_pharmalnet_prediction     (prediction endpoint, archive   *)
(*                                          discovery, make_json_safe)     *)
(* The DeepPurpose library, pandas' CSV reader and the file system are the *)
(* environment: each of their calls is a nondeterministic choice among the *)
(* outcomes the call can have (a result, no result, an exception).         *)
(***************************************************************************)
EXTENDS Integers, Sequences, FiniteSets, TLC

VARIABLES
    pc,         \* position of the request handler in its code
    request,    \* the HTTP request being served
    response,   \* the JsonResponse returned (status 0: none yet)
    calls,      \* library / file-system calls made so far, in order
    raised,     \* the exception caught by the handler's except clause ("" none)
    df,         \* the pandas table the handler holds
    lists,      \* the column lists taken from df (X_drugs/smiles, X_targets/proteins, y)
    parts,      \* train / val / test returned by utils.data_process (training)
    metrics,    \* the metrics dict of the training pipeline
    modelDir,   \* files of the job-scoped model directory (training)
    zipFile,    \* members of the archive written by the training pipeline
    media,      \* MEDIA_ROOT/pharmalnet_models: file name -> archive members
    extractDir, \* the tree the uploaded archive was extracted to (prediction)
    model_dir,  \* the directory handed to models.model_pretrained
    model,      \* the loaded DeepPurpose model
    X_pred,     \* the encoded rows returned by utils.data_process (prediction)
    y_pred,     \* the scores returned by model.predict
    y_true,     \* the test labels of the evaluation (training)
    ret,        \* the tuple returned by protein_smiles_uploads
    val,        \* argument of make_json_safe
    out,        \* result of make_json_safe
    jobs        \* the training requests served at the same time: job -> its state

vars == <<pc, request, response, calls, raised, df, lists, parts, metrics,
          modelDir, zipFile, media, extractDir, model_dir, model, X_pred,
          y_pred, y_true, ret, val, out, jobs>>

----------------------------------------------------------------------------
(* Bounds of the model *)

MaxRows == 2        \* rows of an uploaded table
MaxNum  == 5        \* magnitude of the plain numbers given to make_json_safe

(* Program constants *)

PreviewRows == 5    \* df.head(5), dti_api.py 216

----------------------------------------------------------------------------
(* Values: a Python / numpy / pandas value is a record                     *)
(*   w : wrapper  "py" plain, "np" numpy scalar, "arr1" numpy array of one *)
(*                element, "arrN" numpy array of several elements (k, n    *)
(*                describe its first element)                              *)
(*   k : kind     "num" finite number, "nan", "inf", "ninf", "none", "str" *)
(*   n : the number (kind "num")                                           *)
(*   s : the string (kind "str")                                           *)

Val(w, k, n, s) == [w |-> w, k |-> k, n |-> n, s |-> s]
Num(n)    == Val("py", "num", n, "")
Str(s)    == Val("py", "str", 0, s)
NaN       == Val("py", "nan", 0, "")
PosInf    == Val("py", "inf", 0, "")
NegInf    == Val("py", "ninf", 0, "")
None      == Val("py", "none", 0, "")

Numbers      == (0 - MaxNum)..MaxNum
PlainValues  == {Num(n) : n \in Numbers} \cup {NaN, PosInf, NegInf, None}
                    \cup {Str(s) : s \in {"", "CCO"}}
NumpyValues  == {Val(w, "num", n, "") : w \in {"np", "arr1", "arrN"}, n \in Numbers}
                    \cup {Val(w, k, 0, "") : w \in {"np", "arr1", "arrN"},
                                              k \in {"nan", "inf", "ninf"}}
Values       == PlainValues \cup NumpyValues

----------------------------------------------------------------------------
(* make_json_safe, dti_api.py 206-214 *)

\* pd.isna(val): True for NaN, None (of any wrapper)
IsNa(v) == v.k \in {"nan", "none"}

\* val in [np.inf, -np.inf]
IsInfinite(v) == v.k \in {"inf", "ninf"}

\* `pd.isna(val) or val in [...]` raises ValueError when pd.isna returns an
\* array of several elements: its truth value is ambiguous
ClassificationRaises(v) == v.w = "arrN"

\* str(val) of an array of several elements
Repr(v) ==
    "[" \o (CASE v.k = "num"  -> ToString(v.n)
              [] v.k = "nan"  -> "nan"
              [] v.k = "inf"  -> "inf"
              [] v.k = "ninf" -> "-inf"
              [] OTHER        -> v.s) \o " ...]"

\* val.item(): the plain Python value of a numpy scalar or one-element array
Item(v) == Val("py", v.k, v.n, v.s)

make_json_safe_no_neg_inf(v) ==
    IF ClassificationRaises(v) THEN Str(Repr(v))
    ELSE IF IsNa(v) \/ v.k = "inf" THEN None
    ELSE IF v.w \in {"np", "arr1"} THEN Item(v)
    ELSE v

make_json_safe(v) ==
    IF ClassificationRaises(v) THEN Str(Repr(v))        \* except: return str(val)
    ELSE IF IsNa(v) \/ IsInfinite(v) THEN None
    ELSE IF v.w \in {"np", "arr1"} THEN Item(v)
    ELSE v

----------------------------------------------------------------------------
(* Tables (pandas DataFrame): a set of column names and a sequence of rows, *)
(* each row a function from the column names to values.                     *)

NoTable == [cols |-> {}, rows |-> << >>]

\* The rows over the columns cols whose cells are drawn from cells[c], at
\* most one cell of a row being other than a well-formed one (nominal[c])
RowsOver(cols, cells, nominal) ==
    {r \in [cols -> UNION {cells[c] : c \in cols}] :
        /\ \A c \in cols : r[c] \in cells[c]
        /\ \A c, d \in cols : (r[c] \notin nominal[c] /\ r[d] \notin nominal[d]) => c = d}

TablesOver(cols, cells, nominal) ==
    UNION {{[cols |-> cols, rows |-> rs] : rs \in [1..n -> RowsOver(cols, cells, nominal)]}
              : n \in 0..MaxRows}

AddCol(r, c, v) == [x \in (DOMAIN r) \cup {c} |-> IF x = c THEN v ELSE r[x]]

\* str(x) of a cell: NaN becomes the string "nan", None the string "None"
AsStr(v) ==
    CASE v.k = "str"  -> v
      [] v.k = "num"  -> Str(ToString(v.n))
      [] v.k = "nan"  -> Str("nan")
      [] v.k = "inf"  -> Str("inf")
      [] v.k = "ninf" -> Str("-inf")
      [] OTHER        -> Str("None")

\* Series.astype(str)
AsStrs(xs) == [i \in 1..Len(xs) |-> AsStr(xs[i])]

\* float(x) raises ValueError on a string that is no number
FloatRaises(v) == v.k = "str"

\* x > 0 on floats: false for NaN
Positive(v) == (v.k = "num" /\ v.n > 0) \/ v.k = "inf"

RECURSIVE ILog10(_)
ILog10(n) == IF n < 10 THEN 0 ELSE 1 + ILog10(n \div 10)

\* np.log10 (the labels of the model are powers of ten, so the result is exact)
Log10(v) ==
    CASE v.k = "num" /\ v.n > 0 -> Num(ILog10(v.n))
      [] v.k = "num" /\ v.n = 0 -> NegInf
      [] v.k = "inf"            -> PosInf
      [] OTHER                  -> NaN

----------------------------------------------------------------------------
(* Strings and paths *)

\* str.endswith
EndsWith(s, suffix) ==
    /\ Len(s) >= Len(suffix)
    /\ SubSeq(s, Len(s) - Len(suffix) + 1, Len(s)) = suffix

\* os.path.join; "" stands for the directory the path is relative to
Join(dir, name) ==
    IF dir = "" THEN name ELSE IF name = "" THEN dir ELSE dir \o "/" \o name

SetMax(S) == CHOOSE m \in S : \A x \in S : x <= m

\* os.path.basename
Basename(path) ==
    LET seps == {i \in 1..Len(path) : SubSeq(path, i, i) = "/"}
    IN  IF seps = {} THEN path ELSE SubSeq(path, SetMax(seps) + 1, Len(path))

----------------------------------------------------------------------------
(* Cleaning, dti_processor.py 39-51 *)

\* df.dropna(subset=cols)
DropNa(rows, cols) == SelectSeq(rows, LAMBDA r : \A c \in cols : ~IsNa(r[c]))

\* df[value_name].astype(float) raises when a label left after the first dropna
\* is a string that is no number
CleanRaises(t, S, P, V) ==
    \E i \in 1..Len(DropNa(t.rows, {S, P, V})) : FloatRaises(DropNa(t.rows, {S, P, V})[i][V])

\* Clean without line 44, df.replace([np.inf, -np.inf], np.nan)
Clean_keeps_infinite(t, S, P, V) ==
    LET r1 == DropNa(t.rows, {S, P, V})
        r2 == [i \in 1..Len(r1) |-> AddCol(r1[i], "seq_len", Num(Len(AsStr(r1[i][P]).s)))]
        r3 == SelectSeq(r2, LAMBDA r : Positive(r[V]))
        r4 == [i \in 1..Len(r3) |-> AddCol(r3[i], "normalized", Log10(r3[i][V]))]
        r6 == DropNa(r4, t.cols \cup {"seq_len", "normalized"})
    IN  [cols |-> t.cols \cup {"seq_len", "normalized"}, rows |-> r6]

Clean(t, S, P, V) ==
    LET r1 == DropNa(t.rows, {S, P, V})                                     \* line 40
        r2 == [i \in 1..Len(r1) |-> AddCol(r1[i], "seq_len", Num(Len(AsStr(r1[i][P]).s)))]
        r3 == SelectSeq(r2, LAMBDA r : Positive(r[V]))                      \* line 42
        r4 == [i \in 1..Len(r3) |-> AddCol(r3[i], "normalized", Log10(r3[i][V]))]  \* line 43
        r5 == [i \in 1..Len(r4) |->                                         \* line 44
                  [c \in DOMAIN r4[i] |-> IF IsInfinite(r4[i][c]) THEN NaN ELSE r4[i][c]]]
        r6 == DropNa(r5, t.cols \cup {"seq_len", "normalized"})             \* line 45
    IN  [cols |-> t.cols \cup {"seq_len", "normalized"}, rows |-> r6]

\* lines 49-51
Column(t, c) == [i \in 1..Len(t.rows) |-> t.rows[i][c]]

----------------------------------------------------------------------------
(* Initial values of the handlers' locals and of the file system *)

NoResponse == [status |-> 0, error |-> "", fields |-> << >>]
NoMetrics  == << >>
\* return None, None, None, [], [], None  (dti_processor.py 152)
NoRet      == [model_dir |-> "", zip_path |-> "", metrics |-> NoMetrics,
               y_true |-> << >>, y_pred |-> << >>, graph_path |-> ""]
NoLists    == [drugs |-> << >>, targets |-> << >>, y |-> << >>]
NoDir      == [exists |-> FALSE, path |-> "", files |-> {}]
NoZip      == [exists |-> FALSE, path |-> "", members |-> << >>]
NoTree     == [exists |-> FALSE, kids |-> << >>, files |-> << >>]
NoModel    == [loaded |-> FALSE]

Reply(status, error) ==
    /\ response' = [status |-> status, error |-> error, fields |-> << >>]
    /\ pc' = "done"

predictLocals == <<extractDir, model_dir, X_pred>>
trainLocals   == <<lists, parts, metrics, modelDir, zipFile, y_true, ret>>
serializerIO  == <<val, out>>

----------------------------------------------------------------------------
(* Training endpoint: pharmalnet_train_api and protein_smiles_uploads *)

ModelNames == {"pharmalnet_model", "alpha"}

TrainRequests ==
    [method : {"POST", "GET"}, dataset : BOOLEAN, smiles_col : {"", "Smiles"},
     protein_col : {"", "seq1"}, value_col : {"", "Value"}, model_name : ModelNames]

\* The cells an uploaded training table can hold, by column
TrainCells ==
    [c \in {"Smiles", "seq1", "Value", "Other"} |->
        CASE c = "Value"  -> {NaN, Num(0 - 1), Num(0), Num(1), Num(10), PosInf, Str("abc")}
          [] c = "Smiles" -> {Str("CCO"), NaN}
          [] c = "seq1"   -> {Str("MKV"), NaN}
          [] OTHER        -> {Str("x"), NaN}]

\* The column sets an uploaded training table can have
TrainColSets ==
    {{"Smiles", "seq1", "Value", "Other"}, {"Smiles", "seq1", "Value"},
     {"seq1", "Value"}, {"Smiles", "Value"}, {"Smiles", "seq1", "Other"}}

\* The well-formed cells of a training table, by column
TrainNominal ==
    [c \in {"Smiles", "seq1", "Value", "Other"} |->
        CASE c = "Value"  -> {Num(1), Num(10)}
          [] c = "Smiles" -> {Str("CCO")}
          [] c = "seq1"   -> {Str("MKV")}
          [] OTHER        -> {Str("x")}]

TrainTables == UNION {TablesOver(cs, TrainCells, TrainNominal) : cs \in TrainColSets}

\* a pipeline that tries the failed step again
PipelineFails_retry(kind) ==
    /\ raised' = kind
    /\ UNCHANGED <<ret, pc>>

\* the pipeline's except clause, dti_processor.py 149-152
PipelineFails(kind) ==
    /\ raised' = kind
    /\ ret' = NoRet
    /\ pc' = "t_ret"

\* dti_api.py 17-34
TrainReceive ==
    /\ pc = "t_start"
    /\ IF request.method # "POST"
       THEN Reply(400, "Invalid request method") /\ UNCHANGED <<calls, raised>>
       ELSE IF \/ ~request.dataset \/ request.smiles_col = ""
               \/ request.protein_col = "" \/ request.value_col = ""
       THEN /\ Reply(400, "Please upload CSV and fill all required fields")
            /\ UNCHANGED <<calls, raised>>
       ELSE \E saved \in BOOLEAN :
              /\ calls' = Append(calls, "save_csv")
              /\ IF saved
                 THEN pc' = "t_read" /\ UNCHANGED <<response, raised>>
                 ELSE /\ raised' = "OSError"
                      /\ Reply(500, "Internal server error")
    /\ UNCHANGED <<request, df, media, model, y_pred>>
    /\ UNCHANGED <<trainLocals, predictLocals, serializerIO, jobs>>

\* dti_processor.py 30-33
TrainReadCsv(tables) ==
    /\ pc = "t_read"
    /\ calls' = Append(calls, "read_csv")
    /\ \/ /\ PipelineFails("ParserError")
          /\ UNCHANGED df
       \/ \E t \in tables :
            /\ df' = t
            /\ pc' = "t_validate"
            /\ UNCHANGED <<raised, ret>>
    /\ UNCHANGED <<request, response, media, model, y_pred>>
    /\ UNCHANGED <<lists, parts, metrics, modelDir, zipFile, y_true>>
    /\ UNCHANGED <<predictLocals, serializerIO, jobs>>

\* the check of line 36 without its third test
MissingColumn_no_label(t, S, P, V) == S \notin t.cols \/ P \notin t.cols

\* dti_processor.py 35-37
MissingColumn(t, S, P, V) == S \notin t.cols \/ P \notin t.cols \/ V \notin t.cols

TrainValidate ==
    /\ pc = "t_validate"
    /\ IF MissingColumn(df, request.smiles_col, request.protein_col, request.value_col)
       THEN PipelineFails("ValueError: Column names not found")
       ELSE pc' = "t_clean" /\ UNCHANGED <<raised, ret>>
    /\ UNCHANGED <<request, response, calls, df, media, model, y_pred>>
    /\ UNCHANGED <<lists, parts, metrics, modelDir, zipFile, y_true>>
    /\ UNCHANGED <<predictLocals, serializerIO, jobs>>

\* dti_processor.py 39-51
TrainClean ==
    /\ pc = "t_clean"
    /\ LET S == request.smiles_col
           P == request.protein_col
           V == request.value_col
       IN  IF CleanRaises(df, S, P, V)
           THEN PipelineFails("ValueError: could not convert string to float")
                /\ UNCHANGED <<df, lists>>
           ELSE /\ df' = Clean(df, S, P, V)
                /\ lists' = [drugs   |-> AsStrs(Column(df', S)),
                             targets |-> AsStrs(Column(df', P)),
                             y       |-> Column(df', "normalized")]
                /\ pc' = "t_split"
                /\ UNCHANGED <<raised, ret>>
    /\ UNCHANGED <<request, response, calls, media, model, y_pred>>
    /\ UNCHANGED <<parts, metrics, modelDir, zipFile, y_true>>
    /\ UNCHANGED <<predictLocals, serializerIO, jobs>>

\* dti_processor.py 53-64: utils.data_process(..., split_method="random",
\* frac=[0.7, 0.1, 0.2]) assigns every row to one of three parts, or raises
TrainSplit ==
    /\ pc = "t_split"
    /\ calls' = Append(calls, "data_process")
    /\ \/ /\ PipelineFails("data_process raised")
          /\ UNCHANGED parts
       \/ \E p \in [1..Len(lists.y) -> {"train", "val", "test"}] :
            /\ parts' = p
            /\ pc' = "t_fit"
            /\ UNCHANGED <<raised, ret>>
    /\ UNCHANGED <<request, response, df, media, model, y_pred>>
    /\ UNCHANGED <<lists, metrics, modelDir, zipFile, y_true>>
    /\ UNCHANGED <<predictLocals, serializerIO, jobs>>

\* dti_processor.py 66-79: generate_config, model_initialize, model.train
TrainFit ==
    /\ pc = "t_fit"
    /\ calls' = calls \o <<"model_initialize", "train">>
    /\ \/ /\ PipelineFails("train raised")
          /\ UNCHANGED model
       \/ /\ model' = [loaded |-> TRUE, fed |-> <<"train", "val", "test">>]
          /\ pc' = "t_eval"
          /\ UNCHANGED <<raised, ret>>
    /\ UNCHANGED <<request, response, df, media, y_pred>>
    /\ UNCHANGED <<lists, parts, metrics, modelDir, zipFile, y_true>>
    /\ UNCHANGED <<predictLocals, serializerIO, jobs>>

\* the labels of the rows assigned to the test part, test.Label.values
TestLabels == 
    LET idx == SelectSeq([i \in 1..Len(parts) |-> i], LAMBDA i : parts[i] = "test")
    IN  [j \in 1..Len(idx) |-> lists.y[idx[j]]]

EvalScores  == {Num(0), Num(1)}
\* r2_score and np.corrcoef are undefined (NaN) on fewer than two samples
MetricsOf(n) == [R2   |-> IF n < 2 THEN NaN ELSE Num(0),
                 MSE  |-> Num(0),
                 Corr |-> IF n < 2 THEN NaN ELSE Num(0)]

\* dti_processor.py 81-107: model.predict(test), r2_score, mean_squared_error,
\* np.corrcoef, the plot. r2_score raises on an empty test part.
TrainEvaluate ==
    /\ pc = "t_eval"
    /\ calls' = Append(calls, "predict")
    /\ \/ /\ PipelineFails("evaluation raised")
          /\ UNCHANGED <<y_pred, y_true, metrics>>
       \/ /\ Len(TestLabels) > 0
          /\ \E sc \in [1..Len(TestLabels) -> EvalScores] :
               /\ y_pred' = sc
               /\ y_true' = TestLabels
               /\ metrics' = MetricsOf(Len(TestLabels))
          /\ pc' = "t_save"
          /\ UNCHANGED <<raised, ret>>
    /\ UNCHANGED <<request, response, df, media, model>>
    /\ UNCHANGED <<lists, parts, modelDir, zipFile>>
    /\ UNCHANGED <<predictLocals, serializerIO, jobs>>

\* A file of a directory tree: the directory it is in, relative to the root
\* of the tree ("" the root itself), its name and its size in bytes
File(dir, name, size) == [dir |-> dir, name |-> name, size |-> size]

\* What model.save_model may leave in the model directory
SavePaths == {<<"", "model.pt">>, <<"", "config.pkl">>, <<"", "old.zip">>,
              <<"best", "model.pt">>}
SavedTrees ==
    {T \in SUBSET {File(p[1], p[2], z) : p \in SavePaths, z \in {0, 1}} :
        \A f, g \in T : (f.dir = g.dir /\ f.name = g.name) => f = g}

\* tempfile.mkdtemp(prefix="pharmalnet_")
TempDir == "/tmp/pharmalnet_0"

\* dti_processor.py 109-124: mkdtemp, makedirs, model.save_model, savefig,
\* metrics.txt
TrainSave ==
    /\ pc = "t_save"
    /\ calls' = calls \o <<"mkdtemp", "save_model">>
    /\ \/ /\ modelDir' = [exists |-> TRUE, path |-> Join(TempDir, request.model_name),
                          files |-> {}]
          /\ PipelineFails("save_model raised")
       \/ \E T \in SavedTrees :
            /\ modelDir' = [exists |-> TRUE, path |-> Join(TempDir, request.model_name),
                            files |-> T \cup {File("", "graph.png", 1),
                                              File("", "metrics.txt", 1)}]
            /\ pc' = "t_zip"
            /\ UNCHANGED <<raised, ret>>
    /\ UNCHANGED <<request, response, df, media, model, y_pred>>
    /\ UNCHANGED <<lists, parts, metrics, zipFile, y_true>>
    /\ UNCHANGED <<predictLocals, serializerIO, jobs>>

\* line 133 without the test of the size
Skipped_zip_only(f) == EndsWith(f.name, ".zip")

\* dti_processor.py 133: skip existing or empty zips
Skipped(f) == EndsWith(f.name, ".zip") \/ f.size = 0

\* line 135 taking the path below the model directory for the member's name
Member_relative(base, f) == [name |-> Join(f.dir, f.name), size |-> f.size]

\* dti_processor.py 131, 135-136: the member written for a file of the walk
Member(base, f) ==
    [name |-> Basename(Join(Join(base, f.dir), f.name)), size |-> f.size]

\* dti_processor.py 128-136: the members of the archive, each with the number
\* of times it was written
Package(base, files) ==
    LET kept == {f \in files : ~Skipped(f)}
    IN  [m \in {Member(base, f) : f \in kept} |->
            Cardinality({f \in kept : Member(base, f) = m})]

ZipName(model_name) == model_name \o "_trained_model.zip"

\* dti_processor.py 126-147
TrainPackage ==
    /\ pc = "t_zip"
    /\ calls' = Append(calls, "zip")
    /\ \/ /\ zipFile' = [exists |-> TRUE, members |-> << >>,
                         path |-> Join(TempDir, ZipName(request.model_name))]
          /\ PipelineFails("zip raised")
       \/ /\ zipFile' = [exists |-> TRUE,
                         members |-> Package(modelDir.path, modelDir.files),
                         path |-> Join(TempDir, ZipName(request.model_name))]
          /\ ret' = [model_dir |-> modelDir.path, zip_path |-> zipFile'.path,
                     metrics |-> metrics, y_true |-> y_true, y_pred |-> y_pred,
                     graph_path |-> Join(modelDir.path, "graph.png")]
          /\ pc' = "t_ret"
          /\ UNCHANGED raised
    /\ UNCHANGED <<request, response, df, media, model, y_pred>>
    /\ UNCHANGED <<lists, parts, metrics, modelDir, y_true>>
    /\ UNCHANGED <<predictLocals, serializerIO, jobs>>

\* dti_api.py 45-46
TrainApiCheck ==
    /\ pc = "t_ret"
    /\ IF ret.metrics = NoMetrics
       THEN Reply(500, "Training failed. Please verify dataset or columns.")
       ELSE pc' = "t_copy" /\ UNCHANGED response
    /\ UNCHANGED <<request, calls, raised, df, media, model, y_pred>>
    /\ UNCHANGED <<trainLocals, predictLocals, serializerIO, jobs>>

\* dti_api.py 48-58: copy the archive to MEDIA_ROOT/pharmalnet_models
TrainCopy ==
    /\ pc = "t_copy"
    /\ IF ret.zip_path # "" /\ zipFile.exists
       THEN /\ calls' = Append(calls, "copy")
            /\ \/ /\ raised' = "OSError"
                  /\ Reply(500, "Internal server error")
                  /\ UNCHANGED media
               \/ /\ media' = (ZipName(request.model_name) :> zipFile.members) @@ media
                  /\ pc' = "t_respond"
                  /\ UNCHANGED <<raised, response>>
       ELSE pc' = "t_respond" /\ UNCHANGED <<calls, raised, response, media>>
    /\ UNCHANGED <<request, df, model, y_pred>>
    /\ UNCHANGED <<trainLocals, predictLocals, serializerIO, jobs>>

\* settings.MEDIA_URL.rstrip("/") + "/pharmalnet_models/" + zip_filename
MediaUrl(zip_filename) == "/media" \o "/pharmalnet_models/" \o zip_filename

\* dti_api.py 60-73; JsonResponse encodes the payload when it is built, inside
\* the try: an object it cannot encode raises TypeError
TrainRespond ==
    /\ pc = "t_respond"
    /\ \/ /\ raised' = "TypeError: not JSON serializable"
          /\ Reply(500, "Internal server error")
       \/ /\ response' =
                [status |-> 200, error |-> "",
                 fields |-> [message    |-> "Model trained successfully!",
                             metrics    |-> ret.metrics,
                             graph_url  |-> ret.graph_path,
                             model_zip  |-> IF ZipName(request.model_name) \in DOMAIN media
                                            THEN MediaUrl(ZipName(request.model_name))
                                            ELSE "",
                             graph_data |-> [actual |-> ret.y_true,
                                             predicted |-> ret.y_pred]]]
          /\ pc' = "done"
          /\ UNCHANGED raised
    /\ UNCHANGED <<request, calls, df, media, model, y_pred>>
    /\ UNCHANGED <<trainLocals, predictLocals, serializerIO, jobs>>

TrainInit ==
    /\ pc = "t_start"
    /\ request \in TrainRequests
    /\ response = NoResponse
    /\ calls = << >>
    /\ raised = ""
    /\ df = NoTable
    /\ lists = NoLists
    /\ parts = << >>
    /\ metrics = NoMetrics
    /\ modelDir = NoDir
    /\ zipFile = NoZip
    /\ media = << >>
    /\ extractDir = NoTree
    /\ model_dir = ""
    /\ model = NoModel
    /\ X_pred = << >>
    /\ y_pred = << >>
    /\ y_true = << >>
    /\ ret = NoRet
    /\ val = None
    /\ out = None
    /\ jobs = << >>

TrainNext ==
    \/ TrainReceive
    \/ TrainReadCsv(TrainTables)
    \/ TrainValidate
    \/ TrainClean
    \/ TrainSplit
    \/ TrainFit
    \/ TrainEvaluate
    \/ TrainSave
    \/ TrainPackage
    \/ TrainApiCheck
    \/ TrainCopy
    \/ TrainRespond

SpecTrain == TrainInit /\ [][TrainNext]_vars

----------------------------------------------------------------------------
(* Archive discovery, dti_api.py 111-121 *)

\* An extracted tree: kids[d] lists the subdirectories of d in the order
\* os.walk meets them, files[d] is the set of names of the files directly in d.
\* Directories are named by their path below the extraction root, "" the root.

RECURSIVE WalkFrom(_, _)
\* os.walk(extract_dir), top-down: a directory, then its subdirectories in turn
WalkFrom(t, todo) ==
    IF todo = << >> THEN << >>
    ELSE <<Head(todo)>> \o WalkFrom(t, t.kids[Head(todo)] \o Tail(todo))

Walk(t) == WalkFrom(t, <<"">>)

\* line 114 with `or` for `and`
HoldsModelFiles_either(files) ==
    \/ \E f \in files : EndsWith(f, ".pt")
    \/ \E f \in files : EndsWith(f, ".pkl")

\* line 114
HoldsModelFiles(files) ==
    /\ \E f \in files : EndsWith(f, ".pt")
    /\ \E f \in files : EndsWith(f, ".pkl")

\* lines 112-115
PossibleDirs(t) == SelectSeq(Walk(t), LAMBDA d : HoldsModelFiles(t.files[d]))

\* line 118 taking the last match: possible_dirs[-1]
SelectedDir_last(t) == PossibleDirs(t)[Len(PossibleDirs(t))]

\* line 118: possible_dirs[0]
SelectedDir(t) == PossibleDirs(t)[1]

\* tempfile.mkdtemp(prefix="pharmalnet_model_")
ExtractRoot == "/tmp/pharmalnet_model_0"

ArchiveFileNames == {"model.pt", "config.pkl", "model.pt.txt"}

Tree(kids, files) == [exists |-> TRUE, kids |-> kids, files |-> files]

\* The directory layouts of an uploaded archive: up to two directories "a" and
\* "b" under the root, in either listing order, and "a/c" under "a"
TreeLayouts ==
    {("" :> top) @@ ("a" :> sub) @@ ("b" :> << >>) @@ ("a/c" :> << >>) :
        top \in {<< >>, <<"a">>, <<"b">>, <<"a", "b">>, <<"b", "a">>},
        sub \in {<< >>, <<"a/c">>}}

DirsOf(kids) == {WalkFrom([kids |-> kids], <<"">>)[i] :
                    i \in 1..Len(WalkFrom([kids |-> kids], <<"">>))}

\* every layout with every choice of files in its directories
AllTrees ==
    UNION {{Tree([d \in DirsOf(k) |-> k[d]], fs) :
               fs \in [DirsOf(k) -> SUBSET ArchiveFileNames]} : k \in TreeLayouts}

\* a few archives: flat with both files, both files one level down, weights only
FewTrees ==
    {Tree("" :> << >>, "" :> {"model.pt", "config.pkl"}),
     Tree(("" :> <<"a">>) @@ ("a" :> << >>),
          ("" :> {"model.pt.txt"}) @@ ("a" :> {"model.pt", "config.pkl"})),
     Tree("" :> << >>, "" :> {"model.pt"})}

----------------------------------------------------------------------------
(* Prediction endpoint: run_pharmalnet_prediction *)

\* request.POST.get(key, default)
Get(form, key, default) == IF key \in DOMAIN form THEN form[key] ELSE default

PredictForms ==
    {<< >>,
     ("smiles_col" :> "Drug") @@ ("protein_col" :> "Target"),
     ("smiles" :> "CCO") @@ ("protein" :> "MKV"),
     ("smiles" :> "CCO"),
     ("smiles" :> "") @@ ("protein" :> "MKV")}

\* model: the extension of the uploaded model file's name, "" when no file
PredictRequests ==
    [method : {"POST", "GET"}, model : {"", ".zip", ".pkl"}, dataset : BOOLEAN,
     POST : PredictForms]

\* a handler without the except clause: the exception leaves the entry point
Except_propagates(kind) ==
    /\ raised' = kind
    /\ pc' = "done"
    /\ UNCHANGED response

\* the handler's outer except clause, dti_api.py 258-262
Except(kind) ==
    /\ raised' = kind
    /\ Reply(500, kind)

\* dti_api.py 86-98
PredictReceive ==
    /\ pc = "p_start"
    /\ IF request.method # "POST"
       THEN Reply(400, "Invalid request method") /\ UNCHANGED <<calls, raised>>
       ELSE IF request.model = ""
       THEN /\ Reply(400, "Please upload a trained model file (.zip or .pkl).")
            /\ UNCHANGED <<calls, raised>>
       ELSE /\ calls' = Append(calls, "save_model_file")
            /\ \/ Except("OSError")
               \/ pc' = "p_locate" /\ UNCHANGED <<response, raised>>
    /\ UNCHANGED <<request, df, media, model, y_pred>>
    /\ UNCHANGED <<trainLocals, predictLocals, serializerIO, jobs>>

\* dti_api.py 100-123
PredictLocate(trees) ==
    /\ pc = "p_locate"
    /\ IF EndsWith(request.model, ".zip")
       THEN /\ calls' = Append(calls, "extractall")
            /\ \/ /\ Except("BadZipFile")
                  /\ UNCHANGED <<extractDir, model_dir>>
               \/ \E t \in trees :
                    /\ extractDir' = t
                    /\ IF PossibleDirs(t) # << >>
                       THEN /\ model_dir' = Join(ExtractRoot, SelectedDir(t))
                            /\ pc' = "p_load"
                            /\ UNCHANGED <<response, raised>>
                       ELSE /\ Except("Could not find model files (.pt / .pkl) in extracted ZIP.")
                            /\ UNCHANGED model_dir
       ELSE /\ model_dir' = "/tmp"                   \* os.path.dirname(model_path)
            /\ pc' = "p_load"
            /\ UNCHANGED <<calls, response, raised, extractDir>>
    /\ UNCHANGED <<request, df, media, model, y_pred, X_pred>>
    /\ UNCHANGED <<trainLocals, serializerIO, jobs>>

\* dti_api.py 125-131
PredictLoad ==
    /\ pc = "p_load"
    /\ calls' = Append(calls, "model_pretrained")
    /\ \/ /\ raised' = "model_pretrained raised"
          /\ Reply(500, "Failed to load DeepPurpose model")
          /\ UNCHANGED model
       \/ /\ model' = [loaded |-> TRUE, dir |-> model_dir]
          /\ pc' = "p_csv"
          /\ UNCHANGED <<response, raised>>
    /\ UNCHANGED <<request, df, media, y_pred>>
    /\ UNCHANGED <<trainLocals, predictLocals, serializerIO, jobs>>

\* The cells an uploaded prediction table can hold, by column
PredictCells ==
    [c \in {"Smiles", "Drug", "seq1", "Target", "Other"} |->
        CASE c \in {"Smiles", "Drug"}  -> {Str("CCO"), NaN}
          [] c \in {"seq1", "Target"} -> {Str("MKV"), NaN}
          [] OTHER                    -> {Str("x"), NaN, PosInf}]

PredictNominal ==
    [c \in {"Smiles", "Drug", "seq1", "Target", "Other"} |->
        CASE c \in {"Smiles", "Drug"}  -> {Str("CCO")}
          [] c \in {"seq1", "Target"} -> {Str("MKV")}
          [] OTHER                    -> {Str("x")}]

PredictColSets ==
    {{"Smiles", "seq1", "Other"}, {"Drug", "Target"}, {"seq1", "Other"}, {"Smiles"}}

\* Tables of more rows than the preview shows, over two kinds of row
LongTables ==
    {[cols |-> {"Smiles", "seq1"}, rows |-> rs] :
        rs \in [1..(PreviewRows + 1) ->
                  {("Smiles" :> Str("CCO")) @@ ("seq1" :> Str("MKV")),
                   ("Smiles" :> NaN) @@ ("seq1" :> Str("MKV"))}]}

PredictTables ==
    LongTables \cup UNION {TablesOver(cs, PredictCells, PredictNominal) : cs \in PredictColSets}

\* dti_api.py 134-143; without a dataset file the handler goes on at line 202
PredictReadCsv(tables) ==
    /\ pc = "p_csv"
    /\ IF request.dataset
       THEN /\ calls' = Append(calls, "read_csv")
            /\ \/ /\ Except("ParserError")
                  /\ UNCHANGED df
               \/ \E t \in tables :
                    /\ df' = t
                    /\ pc' = "p_validate"
                    /\ UNCHANGED <<response, raised>>
       ELSE /\ pc' = "p_column"
            /\ UNCHANGED <<calls, response, raised, df>>
    /\ UNCHANGED <<request, media, model, y_pred>>
    /\ UNCHANGED <<trainLocals, predictLocals, serializerIO, jobs>>

smiles_col  == Get(request.POST, "smiles_col", "Smiles")     \* line 145
protein_col == Get(request.POST, "protein_col", "seq1")      \* line 146

\* line 149 with `and` for `or`
PredictMissingColumn_both(t, S, P) == S \notin t.cols /\ P \notin t.cols

\* line 149
PredictMissingColumn(t, S, P) == S \notin t.cols \/ P \notin t.cols

\* dti_api.py 145-152
PredictValidate ==
    /\ pc = "p_validate"
    /\ IF PredictMissingColumn(df, smiles_col, protein_col)
       THEN Reply(400, "Missing required columns")
       ELSE pc' = "p_lists" /\ UNCHANGED response
    /\ UNCHANGED <<request, calls, raised, df, media, model, y_pred>>
    /\ UNCHANGED <<trainLocals, predictLocals, serializerIO, jobs>>

\* df[col].astype(str).dropna().tolist(), lines 154-155
ToList(t, c) == SelectSeq(AsStrs(Column(t, c)), LAMBDA v : ~IsNa(v))

\* dti_api.py 154-162
PredictLists ==
    /\ pc = "p_lists"
    /\ lists' = [drugs |-> ToList(df, smiles_col), targets |-> ToList(df, protein_col),
                 y |-> << >>]
    /\ IF lists'.drugs = << >> \/ lists'.targets = << >>
       THEN Reply(400, "Empty SMILES or Protein sequence provided.")
       ELSE pc' = "p_encode" /\ UNCHANGED response
    /\ UNCHANGED <<request, calls, raised, df, media, model, y_pred>>
    /\ UNCHANGED <<parts, metrics, modelDir, zipFile, y_true, ret>>
    /\ UNCHANGED <<predictLocals, serializerIO, jobs>>

Min(a, b) == IF a < b THEN a ELSE b

\* utils.data_process pairs X_drug, X_target and y up with zip(): one row per
\* position, as many as the shortest list has
Zip(drugs, targets, y) ==
    [i \in 1..Min(Len(drugs), Min(Len(targets), Len(y))) |->
        [drug |-> drugs[i].s, target |-> targets[i].s, Label |-> y[i]]]

\* the sequence without its j-th element (j = 0: the whole sequence)
Without(seq, j) ==
    [i \in 1..(IF j \in 1..Len(seq) THEN Len(seq) - 1 ELSE Len(seq)) |->
        IF j \in 1..Len(seq) /\ i >= j THEN seq[i + 1] ELSE seq[i]]

\* dti_api.py 164-191: dummy_y, utils.data_process(..., split_method="no_split").
\* The library raises, returns nothing, or returns the encoded rows in order,
\* possibly without a row it could not encode.
PredictEncode ==
    /\ pc = "p_encode"
    /\ calls' = Append(calls, "data_process")
    /\ LET dummy_y == [i \in 1..Len(lists.drugs) |-> Num(0)]
           rows    == Zip(lists.drugs, lists.targets, dummy_y)
       IN  /\ lists' = [lists EXCEPT !.y = dummy_y]
           /\ \/ /\ raised' = "data_process raised"
                 /\ Reply(500, "Data preprocessing failed")
                 /\ UNCHANGED X_pred
              \/ /\ Reply(400, "Prediction data processing failed")
                 /\ UNCHANGED <<X_pred, raised>>
              \/ \E j \in 0..Len(rows) :
                   /\ Without(rows, j) # << >>
                   /\ X_pred' = Without(rows, j)
                   /\ pc' = "p_score"
                   /\ UNCHANGED <<response, raised>>
    /\ UNCHANGED <<request, df, media, model, y_pred>>
    /\ UNCHANGED <<parts, metrics, modelDir, zipFile, y_true, ret>>
    /\ UNCHANGED <<extractDir, model_dir, serializerIO, jobs>>

ScoreVals == {Num(1), Num(2), NaN, PosInf}

\* the compound / sequence pairs of the encoded rows
PairsOf(X) == {<<X[i].drug, X[i].target>> : i \in 1..Len(X)}

\* a predict that hands back the label column of its input
Scores_label(f, X) == [i \in 1..Len(X) |-> X[i].Label]

\* model.predict: the model's score for the pair of each row, in order
Scores(f, X) == [i \in 1..Len(X) |-> f[<<X[i].drug, X[i].target>>]]

\* dti_api.py 193-199
PredictScore ==
    /\ pc = "p_score"
    /\ calls' = Append(calls, "predict")
    /\ \/ /\ Except("predict raised")
          /\ UNCHANGED <<model, y_pred>>
       \/ /\ Reply(500, "Model failed to generate predictions. Check data or encodings.")
          /\ UNCHANGED <<model, y_pred, raised>>
       \/ \E f \in [PairsOf(X_pred) -> ScoreVals] :
            /\ model' = [loaded |-> TRUE, dir |-> model.dir, f |-> f]
            /\ y_pred' = Scores(f, X_pred)
            /\ pc' = "p_column"
            /\ UNCHANGED <<response, raised>>
    /\ UNCHANGED <<request, df, media>>
    /\ UNCHANGED <<trainLocals, predictLocals, serializerIO, jobs>>

\* float(x) if pd.notna(x) and not np.isinf(x) else None, line 203
FloatOrNone(x) == IF IsNa(x) \/ IsInfinite(x) THEN None ELSE Item(x)

\* pandas stores a list of floats and None as a float column: None becomes NaN
AsColumn(xs) ==
    IF /\ \E i \in 1..Len(xs) : xs[i].k = "num"
       /\ \A i \in 1..Len(xs) : xs[i].k \in {"num", "none", "nan"}
    THEN [i \in 1..Len(xs) |-> IF xs[i] = None THEN NaN ELSE xs[i]]
    ELSE xs

\* df["Predicted"] = [...], line 203
WithPredicted(t, ys) ==
    [cols |-> t.cols \cup {"Predicted"},
     rows |-> [i \in 1..Len(t.rows) |->
                  AddCol(t.rows[i], "Predicted", AsColumn([j \in 1..Len(ys) |-> FloatOrNone(ys[j])])[i])]]

\* dti_api.py 202-203. The lines are outside `if csv_file:`; without a dataset
\* file y_pred is unbound; pandas refuses a column of another length than df
PredictColumn ==
    /\ pc = "p_column"
    /\ IF ~request.dataset
       THEN Except("UnboundLocalError: y_pred") /\ UNCHANGED df
       ELSE IF Len(y_pred) # Len(df.rows)
       THEN Except("ValueError: Length of values does not match length of index")
            /\ UNCHANGED df
       ELSE /\ df' = WithPredicted(df, y_pred)
            /\ pc' = "p_respond"
            /\ UNCHANGED <<response, raised>>
    /\ UNCHANGED <<request, calls, media, model, y_pred>>
    /\ UNCHANGED <<trainLocals, predictLocals, serializerIO, jobs>>

\* df.head(n)
HeadRows(rows, n) == SubSeq(rows, 1, Min(n, Len(rows)))

\* df.applymap(make_json_safe).to_dict(orient="records"). applymap builds a new
\* table of the results; with reinfer pandas infers the column types of that
\* table again, which turns the None of a column of floats back into NaN
Records(rows, reinfer) ==
    LET safe == [i \in 1..Len(rows) |->
                    [c \in DOMAIN rows[i] |-> make_json_safe(rows[i][c])]]
    IN  IF reinfer
        THEN [i \in 1..Len(safe) |->
                 [c \in DOMAIN safe[i] |-> AsColumn(Column([rows |-> safe], c))[i]]]
        ELSE safe

\* dti_api.py 216-226; JsonResponse may raise TypeError on the records
PredictRespond ==
    /\ pc = "p_respond"
    /\ \/ Except("TypeError: not JSON serializable")
       \/ \E reinfer \in BOOLEAN :
            /\ response' =
                 [status |-> 200, error |-> "",
                  fields |-> [message       |-> "Prediction successful!",
                              total_records |-> Len(df.rows),
                              preview       |-> Records(HeadRows(df.rows, PreviewRows),
                                                        reinfer),
                              full_data     |-> Records(df.rows, reinfer)]]
            /\ pc' = "done"
            /\ UNCHANGED raised
    /\ UNCHANGED <<request, calls, df, media, model, y_pred>>
    /\ UNCHANGED <<trainLocals, predictLocals, serializerIO, jobs>>

PredictInit ==
    /\ pc = "p_start"
    /\ request \in PredictRequests
    /\ response = NoResponse
    /\ calls = << >>
    /\ raised = ""
    /\ df = NoTable
    /\ lists = NoLists
    /\ parts = << >>
    /\ metrics = NoMetrics
    /\ modelDir = NoDir
    /\ zipFile = NoZip
    /\ media = << >>
    /\ extractDir = NoTree
    /\ model_dir = ""
    /\ model = NoModel
    /\ X_pred = << >>
    /\ y_pred = << >>
    /\ y_true = << >>
    /\ ret = NoRet
    /\ val = None
    /\ out = None
    /\ jobs = << >>

PredictNext ==
    \/ PredictReceive
    \/ PredictLocate(FewTrees)
    \/ PredictLoad
    \/ PredictReadCsv(PredictTables)
    \/ PredictValidate
    \/ PredictLists
    \/ PredictEncode
    \/ PredictScore
    \/ PredictColumn
    \/ PredictRespond

SpecPredict == PredictInit /\ [][PredictNext]_vars

----------------------------------------------------------------------------
(* Archive discovery over every tree of the bounded layouts *)

InspectInit ==
    /\ PredictInit
    /\ request.POST = << >>
    /\ ~request.dataset

InspectNext ==
    \/ PredictReceive
    \/ PredictLocate(AllTrees)

SpecInspect == InspectInit /\ [][InspectNext]_vars

----------------------------------------------------------------------------
(* make_json_safe applied to one value *)

SerializerInit ==
    /\ pc = "s_start"
    /\ request = << >>
    /\ response = NoResponse
    /\ calls = << >>
    /\ raised = ""
    /\ df = NoTable
    /\ lists = NoLists
    /\ parts = << >>
    /\ metrics = NoMetrics
    /\ modelDir = NoDir
    /\ zipFile = NoZip
    /\ media = << >>
    /\ extractDir = NoTree
    /\ model_dir = ""
    /\ model = NoModel
    /\ X_pred = << >>
    /\ y_pred = << >>
    /\ y_true = << >>
    /\ ret = NoRet
    /\ val \in Values
    /\ out = None
    /\ jobs = << >>

Serialize ==
    /\ pc = "s_start"
    /\ out' = make_json_safe(val)
    /\ pc' = "s_done"
    /\ UNCHANGED <<request, response, calls, raised, df, media, model, y_pred, val>>
    /\ UNCHANGED <<trainLocals, predictLocals, jobs>>

SpecSerializer == SerializerInit /\ [][Serialize]_vars

----------------------------------------------------------------------------
(* Both endpoints, each step of a request being taken in its turn: a handler *)
(* runs synchronously to its return statement, dti_api.py 15-77 and 82-262.  *)

\* the tables of at most one row over the given column sets
ShortTables(colsets, cells, nominal) ==
    UNION {{[cols |-> cs, rows |-> rs] :
               rs \in UNION {[1..n -> RowsOver(cs, cells, nominal)] : n \in 0..1}}
              : cs \in colsets}

EndpointsInit == TrainInit \/ PredictInit

EndpointsNext ==
    \/ TrainReceive
    \/ TrainReadCsv(ShortTables(TrainColSets, TrainCells, TrainNominal))
    \/ TrainValidate
    \/ TrainClean
    \/ TrainSplit
    \/ TrainFit
    \/ TrainEvaluate
    \/ TrainSave
    \/ TrainPackage
    \/ TrainApiCheck
    \/ TrainCopy
    \/ TrainRespond
    \/ PredictReceive
    \/ PredictLocate(FewTrees)
    \/ PredictLoad
    \/ PredictReadCsv(ShortTables(PredictColSets, PredictCells, PredictNominal))
    \/ PredictValidate
    \/ PredictLists
    \/ PredictEncode
    \/ PredictScore
    \/ PredictColumn
    \/ PredictRespond

SpecEndpoints == EndpointsInit /\ [][EndpointsNext]_vars /\ WF_vars(EndpointsNext)

----------------------------------------------------------------------------
(* Training requests served at the same time. Each request runs the code of *)
(* pharmalnet_train_api in a thread of its own; the threads share the file  *)
(* system: the temporary directory and MEDIA_ROOT/pharmalnet_models.        *)

MaxJobs == 2        \* training requests in flight

JobIds == 1..MaxJobs

\* tempfile.mkdtemp(prefix="pharmalnet_") creates a directory that did not
\* exist: the k-th name
JobTempDir(k) == "/tmp/pharmalnet_" \o ToString(k)

NoJob(name) == [pc |-> "j_start", model_name |-> name, temp_dir |-> "",
                zip_path |-> "", status |-> 0, model_zip |-> ""]

\* the archive a job writes: its path in the job's temporary directory and
\* the job whose model and metrics it holds
Archive(j) == [job |-> j, path |-> jobs[j].zip_path]

jobVars == <<pc, request, response, calls, raised, df, model, y_pred,
             trainLocals, predictLocals, serializerIO>>

\* dti_api.py 20-43, dti_processor.py 29-124: the request is read, the table
\* cleaned, the model fitted and saved to temp_dir/model_name; any failure
\* ends the request with status 500 (dti_api.py 45-46)
JobTrain(j) ==
    /\ jobs[j].pc = "j_start"
    /\ \/ jobs' = [jobs EXCEPT ![j].pc = "done", ![j].status = 500]
       \/ \E k \in 1..MaxJobs :
            /\ \A i \in JobIds : jobs[i].temp_dir # JobTempDir(k)
            /\ jobs' = [jobs EXCEPT ![j].pc = "j_zip", ![j].temp_dir = JobTempDir(k)]
    /\ UNCHANGED <<media, jobVars>>

\* dti_processor.py 126-147
JobPackage(j) ==
    /\ jobs[j].pc = "j_zip"
    /\ jobs' = [jobs EXCEPT ![j].pc = "j_copy",
                            ![j].zip_path = Join(jobs[j].temp_dir, ZipName(jobs[j].model_name))]
    /\ UNCHANGED <<media, jobVars>>

\* dti_api.py 48-58: shutil.copy(zip_path, media_zip_path) writes the file
\* MEDIA_ROOT/pharmalnet_models/{model_name}_trained_model.zip, replacing it
\* when it exists
JobCopy(j) ==
    /\ jobs[j].pc = "j_copy"
    /\ media' = [f \in DOMAIN media \cup {ZipName(jobs[j].model_name)} |->
                    IF f = ZipName(jobs[j].model_name) THEN Archive(j) ELSE media[f]]
    /\ jobs' = [jobs EXCEPT ![j].pc = "j_respond"]
    /\ UNCHANGED jobVars

\* dti_api.py 60-73
JobRespond(j) ==
    /\ jobs[j].pc = "j_respond"
    /\ jobs' = [jobs EXCEPT ![j].pc = "done", ![j].status = 200,
                            ![j].model_zip = MediaUrl(ZipName(jobs[j].model_name))]
    /\ UNCHANGED <<media, jobVars>>

JobsInit ==
    /\ pc = "jobs"
    /\ request = << >>
    /\ response = NoResponse
    /\ calls = << >>
    /\ raised = ""
    /\ df = NoTable
    /\ lists = NoLists
    /\ parts = << >>
    /\ metrics = NoMetrics
    /\ modelDir = NoDir
    /\ zipFile = NoZip
    /\ media = << >>
    /\ extractDir = NoTree
    /\ model_dir = ""
    /\ model = NoModel
    /\ X_pred = << >>
    /\ y_pred = << >>
    /\ y_true = << >>
    /\ ret = NoRet
    /\ val = None
    /\ out = None
    /\ jobs \in {[j \in JobIds |-> NoJob(names[j])] : names \in [JobIds -> ModelNames]}

JobsNext ==
    \E j \in JobIds :
        \/ JobTrain(j)
        \/ JobPackage(j)
        \/ JobCopy(j)
        \/ JobRespond(j)

SpecJobs == JobsInit /\ [][JobsNext]_vars

----------------------------------------------------------------------------
(* Round trip: the archive of a training run, uploaded to the prediction   *)
(* endpoint, dti_processor.py 126-136 and dti_api.py 100-123.              *)

\* os.path.dirname
Dirname(path) ==
    LET seps == {i \in 1..Len(path) : SubSeq(path, i, i) = "/"}
    IN  IF seps = {} THEN "" ELSE SubSeq(path, 1, SetMax(seps) - 1)

\* the directories above the file of a member name
AncestorDirs(name) ==
    {SubSeq(name, 1, i - 1) : i \in {k \in 1..Len(name) : SubSeq(name, k, k) = "/"}}

\* the orders in which a directory listing can give the set S
Listings(S) ==
    {p \in [1..Cardinality(S) -> S] : \A i, j \in 1..Cardinality(S) : p[i] = p[j] => i = j}

\* zip_ref.extractall(extract_dir), dti_api.py 104-105: every member is written
\* at its name below the extraction root, the directories of the name being
\* created; the trees differ in the order os.walk lists the subdirectories
Extractions(members) ==
    LET names == {m.name : m \in DOMAIN members}
        dirs  == {""} \cup UNION {AncestorDirs(n) : n \in names}
        sub   == [d \in dirs |-> {e \in dirs \ {""} : Dirname(e) = d}]
        files == [d \in dirs |-> {Basename(n) : n \in {x \in names : Dirname(x) = d}}]
    IN  {Tree(k, files) :
            k \in {k \in [dirs -> UNION {Listings(sub[d]) : d \in dirs}] :
                      \A d \in dirs : k[d] \in Listings(sub[d])}}

\* the archive a training request has answered with is sent to the
\* prediction endpoint as the model file of a new request (dti_api.py 90)
Upload ==
    /\ pc = "done"
    /\ response.status = 200
    /\ zipFile.exists
    /\ request.method = "POST"
    /\ "model_name" \in DOMAIN request
    /\ request' = [method |-> "POST", model |-> ".zip", dataset |-> FALSE, POST |-> << >>]
    /\ response' = NoResponse
    /\ pc' = "p_start"
    /\ calls' = << >>
    /\ UNCHANGED <<raised, df, media, model, y_pred>>
    /\ UNCHANGED <<trainLocals, predictLocals, serializerIO, jobs>>

RoundTripInit ==
    /\ TrainInit
    /\ request.method = "POST"
    /\ request.dataset

RoundTripNext ==
    \/ TrainReceive
    \/ TrainReadCsv(ShortTables(TrainColSets, TrainCells, TrainNominal))
    \/ TrainValidate
    \/ TrainClean
    \/ TrainSplit
    \/ TrainFit
    \/ TrainEvaluate
    \/ TrainSave
    \/ TrainPackage
    \/ TrainApiCheck
    \/ TrainCopy
    \/ TrainRespond
    \/ Upload
    \/ PredictReceive
    \/ PredictLocate(Extractions(zipFile.members))

SpecRoundTrip == RoundTripInit /\ [][RoundTripNext]_vars

----------------------------------------------------------------------------
(* Properties *)

Called(name) == \E i \in 1..Len(calls) : calls[i] = name

\* the manual compound and sequence strings of a prediction request
ManualSmiles  == Get(request.POST, "smiles", "")
ManualProtein == Get(request.POST, "protein", "")

\* C1: a POST to the prediction endpoint with a loadable model archive, no
\* dataset file and non-empty compound and sequence strings ends with a
\* success payload that has a `prediction` field. (Checked under SpecPredict.)
C1_SinglePredictionReturned ==
    (/\ pc = "done"
     /\ request.method = "POST"
     /\ model.loaded
     /\ ~request.dataset
     /\ ManualSmiles # ""
     /\ ManualProtein # "")
    => (/\ response.status = 200
        /\ response.error = ""
        /\ "prediction" \in DOMAIN response.fields)

\* the training request's table has been read and lacks a requested column
TrainColumnMissing ==
    /\ df # NoTable
    /\ \/ request.smiles_col \notin df.cols
       \/ request.protein_col \notin df.cols
       \/ request.value_col \notin df.cols

\* C2: a training request whose dataset lacks one of the three requested
\* columns fails with the missing-column error and produces no archive: no
\* job-scoped directory, no archive file, no call of the model component,
\* nothing copied to the download location. (SpecTrain)
C2_MissingColumnNoArchive ==
    (TrainColumnMissing /\ pc # "t_validate")
    => (/\ raised = "ValueError: Column names not found"
        /\ pc \in {"t_ret", "done"}
        /\ pc = "done" => (response.error # "" /\ response.status >= 400)
        /\ ~modelDir.exists
        /\ ~zipFile.exists
        /\ media = << >>
        /\ \A c \in {"data_process", "model_initialize", "train", "predict",
                     "mkdtemp", "save_model", "zip", "copy"} : ~Called(c))

C2_Witness ==
    /\ pc = "done"
    /\ df # NoTable
    /\ request.value_col \notin df.cols
    /\ request.smiles_col \in df.cols
    /\ request.protein_col \in df.cols
    /\ response.status = 500

\* the table has been cleaned (lines 39-46) and no row is left
NoRowSurvived == "normalized" \in df.cols /\ df.rows = << >>

\* C3: an input-validation failure of a training request (a requested column
\* absent, or no row left by cleaning) is answered with an `error` payload
\* and status 400. (SpecTrain)
C3_ValidationFailureIs400 ==
    (pc = "done" /\ (TrainColumnMissing \/ NoRowSurvived))
    => (response.error # "" /\ response.status = 400)

\* the prediction request's table has been read and lacks a requested column
PredictColumnMissing ==
    /\ df # NoTable
    /\ (smiles_col \notin df.cols \/ protein_col \notin df.cols)

\* C4: a batch prediction request whose table lacks the requested compound or
\* sequence column ("Smiles", "seq1" by default) ends with the missing-column
\* error, status 400, and neither the encoding nor the scoring step is
\* called. (SpecPredict)
C4_BatchMissingColumn ==
    (PredictColumnMissing /\ pc # "p_validate")
    => (/\ pc = "done"
        /\ response.status = 400
        /\ response.error = "Missing required columns"
        /\ ~Called("data_process")
        /\ ~Called("predict"))

C4_Witness ==
    /\ pc = "done"
    /\ request.POST = << >>
    /\ df # NoTable
    /\ "Smiles" \notin df.cols
    /\ "seq1" \in df.cols
    /\ response.status = 400

\* the directories of the extracted tree holding a .pt and a .pkl file
Qualifying(t) ==
    {d \in DOMAIN t.files : /\ \E f \in t.files[d] : EndsWith(f, ".pt")
                            /\ \E f \in t.files[d] : EndsWith(f, ".pkl")}

\* C5: when the extracted archive has no directory holding both a .pt and a
\* .pkl file, the request ends with an error payload and the model is never
\* loaded, nothing is encoded and nothing is scored. (SpecPredict)
C5_NoModelFilesAborts ==
    (extractDir.exists /\ Qualifying(extractDir) = {})
    => (/\ pc = "done"
        /\ response.error # ""
        /\ response.status = 500
        /\ ~model.loaded
        /\ model_dir = ""
        /\ ~Called("model_pretrained")
        /\ ~Called("data_process")
        /\ ~Called("predict"))

C5_Witness ==
    /\ pc = "done"
    /\ extractDir.exists
    /\ \E d \in DOMAIN extractDir.files : "model.pt" \in extractDir.files[d]
    /\ Qualifying(extractDir) = {}
    /\ response.status = 500

\* the place of directory d in the top-down traversal of tree t
Position(t, d) == CHOOSE i \in 1..Len(Walk(t)) : Walk(t)[i] = d

\* C6: discovery selects the first directory, in top-down traversal order
\* (a directory before its subdirectories), that holds a .pt and a .pkl file
\* directly; when exactly one directory qualifies it is the one selected; a
\* directory with only one of the two kinds is never selected; with none
\* discovery fails. (SpecInspect)
C6_FirstQualifyingDirectory ==
    extractDir.exists =>
        LET t == extractDir
        IN  /\ \A d \in DOMAIN t.kids : \A i \in 1..Len(t.kids[d]) :
                   Position(t, d) < Position(t, t.kids[d][i])
            /\ IF Qualifying(t) = {}
               THEN model_dir = "" /\ pc = "done" /\ response.status = 500
               ELSE /\ \E d \in Qualifying(t) :
                         /\ model_dir = Join(ExtractRoot, d)
                         /\ \A e \in Qualifying(t) : Position(t, d) <= Position(t, e)
                    /\ Cardinality(Qualifying(t)) = 1 =>
                         \A e \in Qualifying(t) : model_dir = Join(ExtractRoot, e)
                    /\ \A e \in DOMAIN t.files :
                         e \notin Qualifying(t) => model_dir # Join(ExtractRoot, e)

C6_Witness ==
    /\ extractDir.exists
    /\ Cardinality(Qualifying(extractDir)) = 2
    /\ "" \notin Qualifying(extractDir)
    /\ extractDir.kids[""] = <<"b", "a">>
    /\ model_dir = Join(ExtractRoot, "b")
    /\ "model.pt" \in extractDir.files[""]

\* C7: the archive written by packaging has no member whose name ends in
\* .zip, no member of zero length, and every member name is a bare base name
\* without a directory component. (SpecTrain)
C7_ArchiveFlatNoZipNoEmpty ==
    zipFile.exists =>
        \A m \in DOMAIN zipFile.members :
            /\ ~EndsWith(m.name, ".zip")
            /\ m.size > 0
            /\ \A i \in 1..Len(m.name) : SubSeq(m.name, i, i) # "/"

C7_Witness ==
    /\ zipFile.exists
    /\ File("", "old.zip", 1) \in modelDir.files
    /\ File("", "config.pkl", 0) \in modelDir.files
    /\ File("best", "model.pt", 1) \in modelDir.files
    /\ [name |-> "model.pt", size |-> 1] \in DOMAIN zipFile.members
    /\ pc = "done"
    /\ response.status = 200

\* C8: every row of the cleaned dataset handed to the splitter has a strictly
\* positive (finite) original label and a finite normalized value, and the
\* label list y given to the splitter holds exactly those normalized values;
\* no row with a missing or non-positive label reaches the split. (SpecTrain)
C8_CleanedRowsPositiveFinite ==
    ("normalized" \in df.cols) =>
        /\ Len(lists.y) = Len(df.rows)
        /\ Len(lists.drugs) = Len(df.rows)
        /\ \A i \in 1..Len(df.rows) :
             /\ df.rows[i][request.value_col].k = "num"
             /\ df.rows[i][request.value_col].n > 0
             /\ df.rows[i]["normalized"].k = "num"
             /\ lists.y[i] = df.rows[i]["normalized"]

C8_Witness ==
    /\ Called("data_process")
    /\ Len(df.rows) = MaxRows
    /\ df.rows[1]["normalized"] = Num(1)
    /\ df.rows[2]["normalized"] = Num(0)

\* C9: make_json_safe returns null for NaN, +infinity and -infinity, returns
\* a plain finite number unchanged, unwraps a numpy scalar to its plain
\* value, and returns a string for a value whose classification raises.
\* (SpecSerializer)
C9_SerializerContract ==
    (pc = "s_done") =>
        /\ (val.w \in {"py", "np"} /\ val.k \in {"nan", "inf", "ninf"}) => out = None
        /\ (val.w = "py" /\ val.k = "num") => out = val
        /\ (val.w = "np" /\ val.k = "num") => out = Num(val.n)
        /\ (val.w = "arrN") => (out.w = "py" /\ out.k = "str" /\ out.s # "")

C9_Witness ==
    /\ pc = "s_done"
    /\ val = NegInf
    /\ out = None
    /\ jobs = << >>

\* the model's score for the pair of the i-th row of the table
ScoreOfRow(i) ==
    model.f[<<AsStr(df.rows[i][smiles_col]).s, AsStr(df.rows[i][protein_col]).s>>]

\* two records of a payload agree, a missing value being written null or NaN
SameRecord(a, b) ==
    /\ DOMAIN a = DOMAIN b
    /\ \A c \in DOMAIN a : a[c] = b[c] \/ (IsNa(a[c]) /\ IsNa(b[c]))

Structured ==
    \/ response.status = 200 /\ response.error = "" /\ response.fields # << >>
    \/ response.status \in {400, 500} /\ response.error # ""

\* C11: every invocation of the training and of the prediction endpoint comes
\* to its return with a structured payload, whichever step failed on the way:
\* a success payload, or an `error` payload with status 400 or 500; an
\* exception raised by a step is caught (the handler is at the pipeline's
\* return or has answered with an error), none leaves the entry point.
\* (SpecEndpoints)
C11_AlwaysStructuredPayload ==
    /\ [](pc = "done" => Structured)
    /\ [](raised # "" => \/ pc = "t_ret" /\ ret = NoRet
                         \/ pc = "done" /\ response.status \in {400, 500})
    /\ <>(pc = "done")

C11_Witness ==
    /\ pc = "done"
    /\ raised = "predict raised"
    /\ Called("data_process")
    /\ response.status = 500
    /\ response.error # ""

\* the file of the download location url, below MEDIA_ROOT/pharmalnet_models
FileAt(url) == SubSeq(url, Len(MediaUrl("")) + 1, Len(url))

\* C12: jobs served at the same time share no mutable state: every job has a
\* temporary directory and an archive path of its own, the archive at the
\* download location returned to a job is the one that job produced, and the
\* file a job copied to the download directory is not replaced by another
\* job's. (SpecJobs)
C12_JobsIndependent ==
    /\ \A i, j \in JobIds :
          (i # j /\ jobs[i].zip_path # "") => jobs[i].zip_path # jobs[j].zip_path
    /\ \A j \in JobIds :
          jobs[j].model_zip # "" =>
              /\ FileAt(jobs[j].model_zip) \in DOMAIN media
              /\ media[FileAt(jobs[j].model_zip)] = Archive(j)
    /\ \A j \in JobIds :
          (jobs[j].pc \in {"j_respond", "done"} /\ jobs[j].zip_path # "") =>
              media[ZipName(jobs[j].model_name)].job = j

\* the prediction request's table has rows, and each has a missing value in
\* the compound column or in the sequence column
EveryRowMissing ==
    /\ df # NoTable
    /\ ~PredictColumnMissing
    /\ df.rows # << >>
    /\ \A i \in 1..Len(df.rows) :
          IsNa(df.rows[i][smiles_col]) \/ IsNa(df.rows[i][protein_col])

\* C13: a batch prediction request over a non-empty table in which every row
\* has a missing compound or sequence value has those rows dropped and ends
\* with the empty-input error, the encoding and the scoring step not being
\* called. (SpecPredict)
C13_AllRowsMissingIsEmptyInput ==
    (EveryRowMissing /\ pc \notin {"p_validate", "p_lists"})
    => (/\ pc = "done"
        /\ lists.drugs = << >> \/ lists.targets = << >>
        /\ response.error = "Empty SMILES or Protein sequence provided."
        /\ ~Called("data_process")
        /\ ~Called("predict"))

\* C14: a training request whose table has the three columns and in which no
\* row survives cleaning fails at the cleaning step: the split, the model
\* construction and the fit are not called, and the request ends with an
\* error. (SpecTrain)
C14_EmptyDatasetStopsAtCleaning ==
    NoRowSurvived
    => (/\ ~Called("data_process")
        /\ ~Called("model_initialize")
        /\ ~Called("train")
        /\ pc = "done" => response.error # "")

\* the encoding step was called and delivered no rows (it raised, or returned
\* None or an empty frame)
EncodingFailed == Called("data_process") /\ X_pred = << >>

\* the scoring step was called and delivered no scores (it raised, or
\* returned None)
ScoringFailed == Called("predict") /\ y_pred = << >>

\* C15: a batch prediction request whose encoding step or scoring step
\* raises, or returns no result, ends with an `error` payload of status 500,
\* never with a 4xx status or a success. (SpecPredict)
C15_InferenceFailureIs5xx ==
    (pc = "done" /\ (EncodingFailed \/ ScoringFailed))
    => (response.status = 500 /\ response.error # "")

\* the library and file-system calls of one training request, in the order
\* of the steps: save the upload, read it, split, construct and fit,
\* evaluate, save, package, copy
TrainingOrder ==
    <<"save_csv", "read_csv", "data_process", "model_initialize", "train",
      "predict", "mkdtemp", "save_model", "zip", "copy">>

IsPrefix(a, b) == Len(a) <= Len(b) /\ a = SubSeq(b, 1, Len(a))

\* C16: within one training request the steps run in the order clean,
\* split, fit (fed train, validation, test in that order), evaluate, package,
\* copy, each at most once; once a step has failed no further step is
\* started; the success response carries the metrics and comes only after
\* packaging has completed. (SpecTrain)
C16_StepsInOrderOnce ==
    /\ [](/\ IsPrefix(calls, TrainingOrder)
          /\ Called("data_process") => "normalized" \in df.cols
          /\ Called("predict") => (model.loaded /\ model.fed = <<"train", "val", "test">>)
          /\ Called("copy") => (zipFile.exists /\ ret.metrics # NoMetrics)
          /\ response.status = 200 =>
                /\ raised = ""
                /\ Called("zip")
                /\ zipFile.exists /\ ret.zip_path = zipFile.path
                /\ metrics # NoMetrics
                /\ response.fields.metrics = metrics)
    /\ [][raised # "" => calls' = calls]_vars

C16_Witness ==
    /\ pc = "done"
    /\ response.status = 200
    /\ calls = TrainingOrder
    /\ ZipName(request.model_name) \in DOMAIN media

\* row r of the uploaded table has values in the three named columns and a
\* strictly positive, finite label
Cleanable(r) ==
    /\ ~IsNa(r[request.smiles_col])
    /\ ~IsNa(r[request.protein_col])
    /\ r[request.value_col].k = "num"
    /\ r[request.value_col].n > 0

\* C17: cleaning keeps every row that has values in the three named columns
\* and a strictly positive label with a finite log10, whatever the other
\* columns of the table hold. (SpecTrain)
C17_CleaningKeepsGoodRows ==
    [][(pc = "t_clean" /\ pc' = "t_split") =>
          \A i \in 1..Len(df.rows) :
              Cleanable(df.rows[i]) =>
                  \E j \in 1..Len(df'.rows) :
                      \A c \in df.cols : df'.rows[j][c] = df.rows[i][c]]_vars

\* the model saved by the training run has a non-empty weights file and a
\* non-empty config file
SavedModelComplete ==
    /\ \E f \in modelDir.files : EndsWith(f.name, ".pt") /\ f.size > 0
    /\ \E f \in modelDir.files : EndsWith(f.name, ".pkl") /\ f.size > 0

\* C18: the archive of a successful training run whose saved model has a
\* non-empty .pt and a non-empty .pkl file is accepted by archive discovery
\* when uploaded to the prediction endpoint: the directory selected is the
\* extraction root, which holds exactly the members packaging wrote and no
\* subdirectory. (SpecRoundTrip)
C18_ArchiveRoundTrip ==
    (extractDir.exists /\ SavedModelComplete)
    => (/\ pc = "p_load"
        /\ model_dir = ExtractRoot
        /\ extractDir.kids[""] = << >>
        /\ DOMAIN extractDir.files = {""}
        /\ extractDir.files[""] = {m.name : m \in DOMAIN zipFile.members}
        /\ {"graph.png", "metrics.txt"} \subseteq extractDir.files[""])

C18_Witness ==
    /\ extractDir.exists
    /\ File("best", "model.pt", 1) \in modelDir.files
    /\ File("", "model.pt", 0) \in modelDir.files
    /\ File("", "config.pkl", 1) \in modelDir.files
    /\ File("", "old.zip", 1) \in modelDir.files
    /\ pc = "p_load"
    /\ model_dir = ExtractRoot
    /\ extractDir.files[""] = {"model.pt", "config.pkl", "graph.png", "metrics.txt"}

====
